---- MODULE Spec2Model ----
(***************************************************************************)
(* Behaviour tree engine of behaviour_tree_test/BehaviourTree.h, with the  *)
(* door scenario of behaviour_tree_test/behaviour_tree_test.cpp.           *)
(*                                                                         *)
(* A tree is a table of nodes (Node* = index into the table).  run() is a  *)
(* synchronous, recursive virtual call: the model keeps the C++ call stack *)
(* explicitly (one frame per run() that has not returned yet) and takes    *)
(* one step of the top frame at a time.                                    *)
(***************************************************************************)
EXTENDS Integers, Sequences, FiniteSets, TLC

VARIABLES
    nodes,      \* the wired tree: node id -> node object (fixed after construction)
    unset,      \* the decorators on which setChild was never called
    stacks,     \* the std::stack<Door*> objects: "doors" (DataContext), "building"
    slots,      \* the Door* slots of DataContext: "currentDoor", "usedDoor"
    constructed,\* the slot values the constructors were given by value
    stack,      \* call stack of run() frames, outermost first
    ret,        \* value returned by the run() that returned last
    phase,      \* "idle" | "running" | "crashed" (BehaviourTree::run in progress?)
    verdict,    \* result of the last BehaviourTree::run(), "none" before the first
    runs,       \* number of BehaviourTree::run() calls started
    calls,      \* node id -> number of run() calls on it during the current tree run
    done,       \* node id -> record of its last completed run() in the current tree run
    log         \* std::cout lines written during the current tree run

vars == <<nodes, unset, constructed, stacks, slots, stack, ret, phase, verdict, runs, calls, done, log>>

(***************************************************************************)
(* Bounds of the model.                                                    *)
(***************************************************************************)
MaxChildren == 3    \* children of a composite in the generic programs
MaxDoors == 2       \* doors of a Building, the scenario's building apart
MaxRepeat == 3      \* largest positive Repeater count
MaxCalls == 5       \* run() calls on one node during one tree run
MaxTreeRuns == 2    \* BehaviourTree::run() calls on one tree
IntBits == 3        \* width of int (two's complement)

(***************************************************************************)
(* Pointers.  A Door object is identified by its doorNumber (Building      *)
(* allocates one Door per number); nullptr is NULL.                        *)
(***************************************************************************)
NULL == 0
\* The doors of the "Possible outcome" at the end of behaviour_tree_test.cpp.
ScenarioDoors == 3
Doors == 1..(IF MaxDoors > ScenarioDoors THEN MaxDoors ELSE ScenarioDoors)
StackNames == {"doors", "building"}
SlotNames == {"currentDoor", "usedDoor"}

\* std::stack as a sequence, top of the stack last.
Push(s, x) == Append(s, x)
\* A faulty top() that reads the other end.
TopM(s) == s[1]
Top(s) == s[Len(s)]
\* A faulty pop that leaves the top in place.
PopM(s) == s
Pop(s) == SubSeq(s, 1, Len(s) - 1)

\* Building::initializeBuilding after its first i iterations:
\* for (i = 0; i < numDoors; i++) doors.push(new Door{numDoors - i}).
RECURSIVE initializeBuildingLoop(_, _)
initializeBuildingLoop(numDoors, i) ==
    IF i <= 0 THEN <<>>
    ELSE Push(initializeBuildingLoop(numDoors, i - 1), numDoors - (i - 1))

\* A faulty Building that numbers its doors in push order.
initializeBuildingM(numDoors) == [i \in 1..numDoors |-> i]
initializeBuilding(numDoors) == initializeBuildingLoop(numDoors, numDoors)

(***************************************************************************)
(* Node objects.  Every record has the same fields; a field a class does   *)
(* not have keeps its default.                                             *)
(*   children        CompositeNode::children (node ids, in addChild order) *)
(*   child           DecoratorNode::child (node id)                        *)
(*   numRepeats      Repeater::numRepeats                                  *)
(*   name, probabilityOfSuccess   DoorAction                               *)
(*   stk             StackNode::stack (name of the bound stack)            *)
(*   obtainedStack   GetStack::obtainedStack (name of the bound stack)     *)
(*   object          GetStack::object (a Door*, held by value)             *)
(*   objectFrom      the slot whose value the constructor was given for    *)
(*                   GetStack::object ("" when it was given none)          *)
(*   item            PushToStack::item / PopFromStack::item (bound slot)   *)
(*   variable        SetVariable::variable (bound slot)                    *)
(*   objectSlot      SetVariable::object / IsNull::object (bound slot)     *)
(***************************************************************************)
NodeDefaults ==
    [kind |-> "Node", children |-> <<>>, child |-> 0, numRepeats |-> 0,
     name |-> "", probabilityOfSuccess |-> 0,
     stk |-> "doors", obtainedStack |-> "doors", object |-> NULL, objectFrom |-> "",
     item |-> "currentDoor", variable |-> "currentDoor", objectSlot |-> "currentDoor"]

CompositeNode(kind, children) == [NodeDefaults EXCEPT !.kind = kind, !.children = children]
DecoratorNode(kind, child) == [NodeDefaults EXCEPT !.kind = kind, !.child = child]
NOT_FOUND == -1
\* The range of int numRepeats.
INT_MIN == -(2 ^ (IntBits - 1))
INT_MAX == 2 ^ (IntBits - 1) - 1
Repeater(num, child) ==
    [NodeDefaults EXCEPT !.kind = "Repeater", !.numRepeats = num, !.child = child]
PushToStack(t, s) == [NodeDefaults EXCEPT !.kind = "PushToStack", !.item = t, !.stk = s]
GetStack(s, o, t) ==
    [NodeDefaults EXCEPT !.kind = "GetStack", !.stk = s, !.obtainedStack = o, !.object = t]
PopFromStack(t, s) == [NodeDefaults EXCEPT !.kind = "PopFromStack", !.item = t, !.stk = s]
\* GetStack(s, o, slot) for a slot that holds t when the constructor runs.
GetStackWithSlot(s, o, slot, t) == [GetStack(s, o, t) EXCEPT !.objectFrom = slot]
StackIsEmpty(s) == [NodeDefaults EXCEPT !.kind = "StackIsEmpty", !.stk = s]
SetVariable(t, obj) ==
    [NodeDefaults EXCEPT !.kind = "SetVariable", !.variable = t, !.objectSlot = obj]
IsNull(t) == [NodeDefaults EXCEPT !.kind = "IsNull", !.objectSlot = t]
DoorAction(newName, prob) ==
    [NodeDefaults EXCEPT !.kind = "DoorAction", !.name = newName,
                         !.probabilityOfSuccess = prob]

CompositeKinds == {"Selector", "RandomSelector", "Sequence"}
DecoratorKinds == {"Root", "Inverter", "Succeeder", "Failer", "Repeater", "RepeatUntilFail"}

\* BehaviourTree::root is node 1 of every tree; setRootChild binds its child.
root == 1

(***************************************************************************)
(* The door tree of main(): node ids in the order of the declarations.     *)
(***************************************************************************)
sequence0 == 2
sequence1 == 3
sequence2 == 4
selector == 5
inverter0 == 6
inverter1 == 7
succeeder == 8
untilFail == 9
getDoorStackFromBuilding == 10
popFromStack == 11
setVariable == 12
isNull == 13
walkToDoor == 14
openDoor == 15
unlockDoor == 16
smashDoor == 17
walkThroughDoor == 18
closeDoor == 19

\* main(): the constructors and the setRootChild/addChildren/setChild calls.
DoorTree ==
    <<DecoratorNode("Root", sequence0),
      CompositeNode("Sequence", <<getDoorStackFromBuilding, untilFail, inverter0>>),
      CompositeNode("Sequence", <<popFromStack, inverter1>>),
      CompositeNode("Sequence",
                    <<walkToDoor, selector, walkThroughDoor, succeeder, setVariable>>),
      CompositeNode("Selector", <<openDoor, unlockDoor, smashDoor>>),
      DecoratorNode("Inverter", isNull),
      DecoratorNode("Inverter", sequence2),
      DecoratorNode("Succeeder", closeDoor),
      DecoratorNode("RepeatUntilFail", sequence1),
      GetStack("doors", "building", NULL),
      PopFromStack("currentDoor", "doors"),
      SetVariable("usedDoor", "currentDoor"),
      IsNull("usedDoor"),
      DoorAction("Walk to door", 99),
      DoorAction("Open door", 15),
      DoorAction("Unlock door", 25),
      DoorAction("Smash door", 60),
      DoorAction("Walk through door", 60),
      DoorAction("Close door", 100)>>

\* A Door* that was never assigned (DataContext::currentDoor has no
\* initializer): null, a wild address, or by chance the address of a Door.
WILD == -1
Indeterminate == {NULL, WILD} \cup Doors

\* main(): DataContext data; Building building(numDoors); the door tree.
\* main()'s tree, and the same tree with a "Close door" that always fails.
CloseDoorProbabilities == {100, 0}
DoorTrees ==
    {[DoorTree EXCEPT ![closeDoor] = DoorAction("Close door", prob)] :
        prob \in CloseDoorProbabilities}

DoorPrograms ==
    {[nodes |-> tree,
      stacks |-> [doors |-> <<>>, building |-> initializeBuilding(numDoors)],
      slots |-> [currentDoor |-> c, usedDoor |-> NULL],
      unset |-> {}] :
        tree \in DoorTrees, numDoors \in (0..MaxDoors) \cup {ScenarioDoors},
        c \in Indeterminate}

(***************************************************************************)
(* Generic programs: small trees a caller can wire from the same classes.  *)
(* Their leaves are DoorActions that always fail (0), always succeed (100) *)
(* or may do either (60).                                                  *)
(***************************************************************************)
ProbValues == {0, 60, 100}
SeqsUpTo(S, n) == UNION {[1..k -> S] : k \in 0..n}

\* One composite under the root, its children DoorActions.
CompositePrograms ==
    {[nodes |-> <<DecoratorNode("Root", 2),
                  CompositeNode(kind, [i \in 1..Len(probs) |-> i + 2])>>
                \o [i \in 1..Len(probs) |-> DoorAction("child", probs[i])],
      stacks |-> [doors |-> <<>>, building |-> <<>>],
      slots |-> [currentDoor |-> NULL, usedDoor |-> NULL],
      unset |-> {}] :
        kind \in CompositeKinds, probs \in SeqsUpTo(ProbValues, MaxChildren)}

\* One decorator under the root, its child a DoorAction.
RepeatCounts == INT_MIN..MaxRepeat
DecoratorObjects ==
    {DecoratorNode(kind, 3) : kind \in DecoratorKinds \ {"Repeater"}}
        \cup {Repeater(num, 3) : num \in RepeatCounts}
DecoratorPrograms ==
    {[nodes |-> <<DecoratorNode("Root", 2), d, DoorAction("child", prob)>>,
      stacks |-> [doors |-> <<>>, building |-> <<>>],
      slots |-> [currentDoor |-> NULL, usedDoor |-> NULL],
      unset |-> {}] :
        d \in DecoratorObjects, prob \in ProbValues}

\* A Sequence of GetStack (doors := building, with or without the extra
\* object) and two stack leaves on either stack.  The stacks hold live
\* Doors: the building's, and in the destination at most the current door.
StackLeaves ==
    UNION {{PushToStack("currentDoor", s), PopFromStack("currentDoor", s),
            StackIsEmpty(s)} : s \in StackNames}
StackPrograms ==
    {[nodes |-> <<DecoratorNode("Root", 2),
                  CompositeNode("Sequence", <<3, 4, 5>>),
                  GetStack("doors", "building", obj), x, y>>,
      stacks |-> [doors |-> d, building |-> initializeBuilding(numDoors)],
      slots |-> [currentDoor |-> c, usedDoor |-> NULL],
      unset |-> {}] :
        obj \in {NULL} \cup Doors, x \in StackLeaves, y \in StackLeaves,
        d \in {<<>>, <<1>>}, numDoors \in 0..MaxDoors, c \in Doors}

\* A DecoratorNode has no constructor: until setChild is called its child
\* is indeterminate, as is that of the Root made by new Root before
\* setRootChild.  The stale value is null, a wild address, or the address
\* of another node of the program.  Here either the root or the decorator under
\* it was never given its child; the third node pops the one door of a stack.
UnsetProgramsOf(u) ==
    {[nodes |-> <<DecoratorNode("Root", IF u = 1 THEN c ELSE 2),
                  [d EXCEPT !.child = IF u = 2 THEN c ELSE 3],
                  PopFromStack("currentDoor", "doors")>>,
      stacks |-> [doors |-> <<1>>, building |-> <<>>],
      slots |-> [currentDoor |-> NULL, usedDoor |-> NULL],
      unset |-> {u}] :
        d \in DecoratorObjects, c \in ({NULL, WILD} \cup 1..3) \ {u}}
UnsetPrograms == UnsetProgramsOf(1) \cup UnsetProgramsOf(2)

\* Every leaf class in one Sequence, on a DataContext whose currentDoor the
\* caller has assigned (c).  The GetStack is constructed with
\* data.currentDoor as its extra object; the PopFromStack before it
\* reassigns that slot.
LeafPrograms ==
    {[nodes |-> <<DecoratorNode("Root", 2),
                  CompositeNode("Sequence", <<3, 4, 5, 6, 7, 9>>),
                  PopFromStack("currentDoor", "building"),
                  GetStackWithSlot("doors", "building", "currentDoor", c),
                  PushToStack("currentDoor", "doors"),
                  SetVariable("usedDoor", "currentDoor"),
                  DecoratorNode("Inverter", 8),
                  IsNull("usedDoor"),
                  StackIsEmpty("building")>>,
      stacks |-> [doors |-> <<>>, building |-> initializeBuilding(numDoors)],
      slots |-> [currentDoor |-> c, usedDoor |-> NULL],
      unset |-> {}] :
        numDoors \in 0..MaxDoors, c \in {NULL} \cup Doors}

\* A SetVariable alone under the root, bound to two slots of a DataContext
\* as its constructor leaves it: currentDoor indeterminate, usedDoor null.
SetVariablePrograms ==
    {[nodes |-> <<DecoratorNode("Root", 2), SetVariable(t, obj)>>,
      stacks |-> [doors |-> <<>>, building |-> <<>>],
      slots |-> [currentDoor |-> c, usedDoor |-> NULL],
      unset |-> {}] :
        t \in SlotNames, obj \in SlotNames, c \in Indeterminate}

Programs ==
    DoorPrograms \cup CompositePrograms \cup DecoratorPrograms \cup StackPrograms
        \cup UnsetPrograms \cup SetVariablePrograms \cup LeafPrograms

(***************************************************************************)
(* Bookkeeping of a tree run.                                              *)
(***************************************************************************)
NodeIds == DOMAIN nodes
NotRun == [ran |-> FALSE, result |-> FALSE, list |-> <<>>, trace |-> <<>>]

\* The state after construction of one of the programs of P.
InitOf(P) ==
    /\ \E p \in P :
        /\ nodes = p.nodes
        /\ unset = p.unset
        /\ stacks = p.stacks
        /\ slots = p.slots
        /\ constructed = [s \in {p.nodes[n].objectFrom : n \in DOMAIN p.nodes} \ {""} |->
                              p.slots[s]]
    /\ stack = <<>>
    /\ ret = FALSE
    /\ phase = "idle"
    /\ verdict = "none"
    /\ runs = 0
    /\ calls = [n \in NodeIds |-> 0]
    /\ done = [n \in NodeIds |-> NotRun]
    /\ log = <<>>

Init == InitOf(Programs)

(***************************************************************************)
(* The virtual call child->run() and its return.  A frame is one run()     *)
(* that has not returned: its node (this), where it stands (pc), its loop  *)
(* counter i, the child list it iterates over, and the results its         *)
(* children returned to it so far (trace: <<child, result>> pairs).        *)
(***************************************************************************)
NewFrame(n) ==
    [node |-> n, pc |-> "enter", i |-> 0, limit |-> 0, list |-> <<>>, trace |-> <<>>]
top == stack[Len(stack)]
this == nodes[top.node]
Running(kind) == phase = "running" /\ stack # <<>> /\ this.kind = kind

\* The frame goes on without calling or returning.
Continue(g) ==
    /\ stack' = [stack EXCEPT ![Len(stack)] = g]
    /\ UNCHANGED <<ret, calls, done, phase>>

\* child->run(): the frame waits at pc for the child's result.  A virtual
\* call through a pointer to no node (null or wild) is undefined: the read
\* of the object's vtable faults.
CallChild(g, c, pc) ==
    IF c \in NodeIds
    THEN /\ calls[c] < MaxCalls
         /\ stack' = Append([stack EXCEPT ![Len(stack)] = [g EXCEPT !.pc = pc]],
                            NewFrame(c))
         /\ calls' = [calls EXCEPT ![c] = @ + 1]
         /\ UNCHANGED <<ret, done, phase>>
    ELSE /\ phase' = "crashed"
         /\ UNCHANGED <<stack, ret, calls, done>>

\* child->run() inside a loop that never ends: as CallChild, but once the
\* child was run more than MaxCalls times its runs are no longer counted.
CallChildAgain(g, c, pc) ==
    IF c \in NodeIds
    THEN /\ stack' = Append([stack EXCEPT ![Len(stack)] = [g EXCEPT !.pc = pc]],
                            NewFrame(c))
         /\ calls' = [calls EXCEPT ![c] = IF @ <= MaxCalls THEN @ + 1 ELSE @]
         /\ UNCHANGED <<ret, done, phase>>
    ELSE /\ phase' = "crashed"
         /\ UNCHANGED <<stack, ret, calls, done>>

\* return v;
Return(g, v) ==
    /\ stack' = SubSeq(stack, 1, Len(stack) - 1)
    /\ ret' = v
    /\ done' = [done EXCEPT ![g.node] =
                    [ran |-> TRUE, result |-> v, list |-> g.list, trace |-> g.trace]]
    /\ UNCHANGED <<calls, phase>>

\* The frame with the result of the child it was waiting for.
Got(f, c) == [f EXCEPT !.trace = Append(@, <<c, ret>>)]

Blackboard == <<stacks, slots>>
\* A faulty composite or decorator: running it clears the current item.
NoBlackboardAccessM == stacks' = stacks /\ slots' = [slots EXCEPT !.currentDoor = NULL]
\* The composite and decorator classes have no member bound to the
\* DataContext or the Building: their run() leaves both as they are.
NoBlackboardAccess == UNCHANGED Blackboard
Fixed == <<nodes, unset, constructed, verdict, runs>>

(***************************************************************************)
(* BehaviourTree::run() { return root->run(); } and its caller.            *)
(***************************************************************************)
BehaviourTreeRun ==
    /\ phase = "idle"
    /\ runs < MaxTreeRuns
    /\ phase' = "running"
    /\ runs' = runs + 1
    /\ verdict' = "none"
    /\ stack' = <<NewFrame(root)>>
    /\ calls' = [n \in NodeIds |-> IF n = root THEN 1 ELSE 0]
    /\ done' = [n \in NodeIds |-> NotRun]
    /\ log' = <<>>
    /\ UNCHANGED <<nodes, unset, constructed, stacks, slots, ret>>

BehaviourTreeReturn ==
    /\ phase = "running"
    /\ stack = <<>>
    /\ phase' = "idle"
    /\ verdict' = ret
    /\ UNCHANGED <<nodes, unset, constructed, stacks, slots, stack, ret, runs, calls,
                   done, log>>

\* Root::run() { return getChild()->run(); }
RootRun ==
    /\ Running("Root")
    /\ IF top.pc = "enter"
       THEN CallChild(top, this.child, "wait")
       ELSE Return(Got(top, this.child), ret)
    /\ NoBlackboardAccess
    /\ UNCHANGED <<Fixed, log>>

(***************************************************************************)
(* Composite nodes.                                                        *)
(***************************************************************************)
\* const std::vector<Node*>& getChildren() const { return children; }
getChildren(n) == n.children

Shuffles(s) ==
    {[i \in 1..Len(s) |-> s[f[i]]] :
        f \in {g \in [1..Len(s) -> 1..Len(s)] : \A i, j \in 1..Len(s) : g[i] = g[j] => i = j}}

\* A faulty shuffle: positions drawn with repetition.
childrenShuffledM(n) ==
    {[i \in 1..Len(n.children) |-> n.children[f[i]]] :
        f \in [1..Len(n.children) -> 1..Len(n.children)]}

\* temp = children; std::random_shuffle(temp.begin(), temp.end()); return temp;
\* any permutation of a copy of the children can come out.
childrenShuffled(n) == Shuffles(n.children)

\* A faulty Selector that does not stop at a success.
SelectorStopsM(r) == FALSE

\* if (child->run()) return true;
SelectorStops(r) == r
\* return false;  // All children failed
SelectorAllFailed == FALSE

\* The loop of Selector::run and RandomSelector::run over f.list.
SelectorLoop(f) ==
    CASE f.pc = "loop" ->
            IF f.i > Len(f.list)
            THEN Return(f, SelectorAllFailed)
            ELSE CallChild(f, f.list[f.i], "wait")
      [] f.pc = "wait" ->
            LET g == Got(f, f.list[f.i]) IN
            IF SelectorStops(ret)
            THEN Return(g, TRUE)
            ELSE Continue([g EXCEPT !.i = @ + 1, !.pc = "loop"])

SelectorRun ==
    /\ Running("Selector")
    /\ IF top.pc = "enter"
       THEN Continue([top EXCEPT !.list = getChildren(this), !.i = 1, !.pc = "loop"])
       ELSE SelectorLoop(top)
    /\ NoBlackboardAccess
    /\ UNCHANGED <<Fixed, log>>

\* A faulty shuffle that reorders the node's own children.
ChildrenAfterShuffleM(n, temp) == [nodes EXCEPT ![n].children = temp]
\* childrenShuffled() is const and shuffles temp, a copy: the node's children
\* are what they were.
ChildrenAfterShuffle(n, temp) == nodes

RandomSelectorRun ==
    /\ Running("RandomSelector")
    /\ IF top.pc = "enter"
       THEN \E temp \in childrenShuffled(this) :
                /\ Continue([top EXCEPT !.list = temp, !.i = 1, !.pc = "loop"])
                /\ nodes' = ChildrenAfterShuffle(top.node, temp)
       ELSE /\ SelectorLoop(top)
            /\ nodes' = nodes
    /\ NoBlackboardAccess
    /\ UNCHANGED <<unset, constructed, verdict, runs, log>>

\* A faulty Sequence that does not stop at a failure.
SequenceStopsM(r) == FALSE

\* if (!child->run()) return false;
SequenceStops(r) == ~r
\* return true;  // All children suceeded
SequenceAllSucceeded == TRUE

SequenceRun ==
    /\ Running("Sequence")
    /\ CASE top.pc = "enter" ->
                Continue([top EXCEPT !.list = getChildren(this), !.i = 1, !.pc = "loop"])
         [] top.pc = "loop" ->
                IF top.i > Len(top.list)
                THEN Return(top, SequenceAllSucceeded)
                ELSE CallChild(top, top.list[top.i], "wait")
         [] top.pc = "wait" ->
                LET g == Got(top, top.list[top.i]) IN
                IF SequenceStops(ret)
                THEN Return(g, FALSE)
                ELSE Continue([g EXCEPT !.i = @ + 1, !.pc = "loop"])
    /\ NoBlackboardAccess
    /\ UNCHANGED <<Fixed, log>>

(***************************************************************************)
(* Decorator nodes.                                                        *)
(***************************************************************************)
\* Node* getChild() const { return child; }
getChild(n) == n.child

\* A faulty Inverter that passes the result through.
InverterResultM(r) == r
\* return !getChild()->run();
InverterResult(r) == ~r

InverterRun ==
    /\ Running("Inverter")
    /\ IF top.pc = "enter"
       THEN CallChild(top, getChild(this), "wait")
       ELSE Return(Got(top, getChild(this)), InverterResult(ret))
    /\ NoBlackboardAccess
    /\ UNCHANGED <<Fixed, log>>

\* A faulty Succeeder that passes the result through.
SucceederResultM(r) == r
\* getChild()->run();  return true;
SucceederResult(r) == TRUE

SucceederRun ==
    /\ Running("Succeeder")
    /\ IF top.pc = "enter"
       THEN CallChild(top, getChild(this), "wait")
       ELSE Return(Got(top, getChild(this)), SucceederResult(ret))
    /\ NoBlackboardAccess
    /\ UNCHANGED <<Fixed, log>>

\* getChild()->run();  return false;
FailerResult(r) == FALSE

FailerRun ==
    /\ Running("Failer")
    /\ IF top.pc = "enter"
       THEN CallChild(top, getChild(this), "wait")
       ELSE Return(Got(top, getChild(this)), FailerResult(ret))
    /\ NoBlackboardAccess
    /\ UNCHANGED <<Fixed, log>>

\* A faulty loop condition: one repetition too many.
\* numRepeats - 1 in int.  INT_MIN - 1 overflows, which is undefined: the
\* build either wraps to INT_MAX or compares as if nothing overflowed.
numRepeatsMinusOne(numRepeats) ==
    IF numRepeats = INT_MIN THEN {INT_MAX, INT_MIN - 1} ELSE {numRepeats - 1}

\* A faulty loop test that runs the loop once more.
RepeaterLoopsM(i, limit) == i < limit + 1
\* for (int i = 0; i < numRepeats - 1; i++), limit being numRepeats - 1
RepeaterLoops(i, limit) == i < limit

\* A faulty Repeater that takes no count for the sentinel.
RepeaterForeverM(numRepeats) == FALSE
\* if (numRepeats == NOT_FOUND)
RepeaterForever(numRepeats) == numRepeats = NOT_FOUND

\* Repeater::run.  pc "forever": inside while (true), where the child's
\* result is dropped; pc "wait": inside the for loop, whose bound
\* numRepeats - 1 is in the frame's limit; pc "last": in
\* return getChild()->run().
RepeaterRun ==
    /\ Running("Repeater")
    /\ CASE top.pc = "enter" ->
                IF RepeaterForever(this.numRepeats)
                THEN CallChildAgain(top, getChild(this), "forever")
                ELSE \E limit \in numRepeatsMinusOne(this.numRepeats) :
                        LET g == [top EXCEPT !.limit = limit] IN
                        IF RepeaterLoops(0, limit)
                        THEN CallChild(g, getChild(this), "wait")
                        ELSE CallChild(g, getChild(this), "last")
         [] top.pc = "forever" ->
                CallChildAgain(top, getChild(this), "forever")
         [] top.pc = "wait" ->
                LET g == [Got(top, getChild(this)) EXCEPT !.i = @ + 1] IN
                IF RepeaterLoops(g.i, g.limit)
                THEN CallChild(g, getChild(this), "wait")
                ELSE CallChild(g, getChild(this), "last")
         [] top.pc = "last" ->
                Return(Got(top, getChild(this)), ret)
    /\ NoBlackboardAccess
    /\ UNCHANGED <<Fixed, log>>

\* A faulty loop condition: repeat until the child succeeds.
RepeatUntilFailLoopsM(r) == ~r
\* while (getChild()->run()) {}
RepeatUntilFailLoops(r) == r

RepeatUntilFailRun ==
    /\ Running("RepeatUntilFail")
    /\ IF top.pc = "enter"
       THEN CallChild(top, getChild(this), "wait")
       ELSE LET g == Got(top, getChild(this)) IN
            IF RepeatUntilFailLoops(ret)
            THEN CallChild(g, getChild(this), "wait")
            ELSE Return(g, TRUE)
    /\ NoBlackboardAccess
    /\ UNCHANGED <<Fixed, log>>

(***************************************************************************)
(* Leaves.  A leaf's run() calls no node: one step from entry to return.   *)
(***************************************************************************)
\* A line of std::cout: its text, the door number it prints (0: none) and,
\* for a DoorAction, whether it says "succeeded".
Line(text, door, ok) == [text |-> text, door |-> door, ok |-> ok]

\* std::cout << line, by the run() on top of the call stack.  The log keeps
\* the lines of the runs that are counted.
Write(line) == IF calls[top.node] <= MaxCalls THEN Append(log, line) ELSE log

\* p->doorNumber: the number of a live Door; through any other pointer the
\* read is undefined: the process faults (SIGSEGV) or reads some int.
SIGSEGV == -2
doorNumber(p) == IF p \in Doors THEN {p} ELSE {SIGSEGV, 0}

\* std::rand() % 100 < probabilityOfSuccess, std::rand() % 100 being any of 0..99.
RandPercent == 0..99
Succeeds(prob) == {x < prob : x \in RandPercent}

\* A faulty read of a slot: the copy taken when the nodes were constructed.
SlotValueM(slot) == IF slot \in DOMAIN constructed THEN constructed[slot] ELSE slots[slot]
\* The read of a T*& member: the value the bound slot holds now.
SlotValue(slot) == slots[slot]

DoorActionRun ==
    /\ Running("DoorAction")
    /\ \E r \in Succeeds(this.probabilityOfSuccess) :
        /\ Return(top, r)
        /\ log' = Write(Line(this.name, 0, r))
    /\ UNCHANGED <<Fixed, Blackboard>>

\* this->stack.push(item);  return true;
PushToStackRun ==
    /\ Running("PushToStack")
    /\ stacks' = [stacks EXCEPT ![this.stk] = Push(@, SlotValue(this.item))]
    /\ Return(top, TRUE)
    /\ UNCHANGED <<Fixed, slots, log>>

\* A faulty copy that forgets the extra object.
GetStackResultM(obtainedStack, object) == obtainedStack
\* this->stack = obtainedStack;  if (object) this->stack.push(object);
GetStackResult(obtainedStack, object) ==
    IF object # NULL THEN Push(obtainedStack, object) ELSE obtainedStack

GetStackRun ==
    /\ Running("GetStack")
    /\ stacks' = [stacks EXCEPT
                    ![this.stk] = GetStackResult(stacks[this.obtainedStack], this.object)]
    /\ Return(top, TRUE)
    /\ UNCHANGED <<Fixed, slots, log>>

\* PopFromStack::run.  The assignment to item precedes the read of
\* item->doorNumber, so it has happened when that read faults.
PopFromStackRun ==
    /\ Running("PopFromStack")
    /\ IF stacks[this.stk] = <<>>
       THEN /\ Return(top, FALSE)
            /\ UNCHANGED <<Blackboard, log>>
       ELSE /\ slots' = [slots EXCEPT ![this.item] = Top(stacks[this.stk])]
            /\ \E number \in doorNumber(Top(stacks[this.stk])) :
                IF number = SIGSEGV
                THEN /\ phase' = "crashed"
                     /\ UNCHANGED <<stacks, stack, ret, calls, done, log>>
                ELSE /\ log' = Write(Line("Trying to get through door", number, TRUE))
                     /\ stacks' = [stacks EXCEPT ![this.stk] = Pop(@)]
                     /\ Return(top, TRUE)
    /\ UNCHANGED Fixed

\* return this->stack.empty();
StackIsEmptyRun ==
    /\ Running("StackIsEmpty")
    /\ Return(top, stacks[this.stk] = <<>>)
    /\ UNCHANGED <<Fixed, Blackboard, log>>

\* SetVariable::run: variable = object; then the read of variable->doorNumber.
SetVariableRun ==
    /\ Running("SetVariable")
    /\ slots' = [slots EXCEPT ![this.variable] = SlotValue(this.objectSlot)]
    /\ \E number \in doorNumber(SlotValue(this.objectSlot)) :
        IF number = SIGSEGV
        THEN /\ phase' = "crashed"
             /\ UNCHANGED <<stack, ret, calls, done, log>>
        ELSE /\ log' = Write(Line("The door that was used to get in is door",
                                       number, TRUE))
             /\ Return(top, TRUE)
    /\ UNCHANGED <<Fixed, stacks>>

\* A faulty IsNull that answers for a non-null object.
IsNullResultM(object) == object # NULL
\* return !object;
IsNullResult(object) == object = NULL

IsNullRun ==
    /\ Running("IsNull")
    /\ Return(top, IsNullResult(SlotValue(this.objectSlot)))
    /\ UNCHANGED <<Fixed, Blackboard, log>>

Next ==
    \/ BehaviourTreeRun
    \/ BehaviourTreeReturn
    \/ RootRun
    \/ SelectorRun
    \/ RandomSelectorRun
    \/ SequenceRun
    \/ InverterRun
    \/ SucceederRun
    \/ FailerRun
    \/ RepeaterRun
    \/ RepeatUntilFailRun
    \/ DoorActionRun
    \/ PushToStackRun
    \/ GetStackRun
    \/ PopFromStackRun
    \/ StackIsEmptyRun
    \/ SetVariableRun
    \/ IsNullRun

Spec == Init /\ [][Next]_vars

(***************************************************************************)
(* The programs with a Repeater under the root, run by a thread that is    *)
(* never stopped: whenever the program can take a step, it takes one.      *)
(***************************************************************************)
RepeaterPrograms == {p \in DecoratorPrograms : p.nodes[2].kind = "Repeater"}

RepeaterInit == InitOf(RepeaterPrograms)

RepeaterNext ==
    \/ BehaviourTreeRun
    \/ BehaviourTreeReturn
    \/ RootRun
    \/ RepeaterRun
    \/ DoorActionRun

RepeaterSpec == RepeaterInit /\ [][RepeaterNext]_vars /\ WF_vars(RepeaterNext)

(***************************************************************************)
(* Properties.  done[n] describes the last run() of node n that returned   *)
(* during the current tree run: its result, the list it iterated over and  *)
(* the children it ran, in order, with what each returned.                 *)
(***************************************************************************)
Returned(kind) == {n \in NodeIds : nodes[n].kind = kind /\ done[n].ran}
ChildAt(d, k) == d.trace[k][1]
ResultAt(d, k) == d.trace[k][2]

\* The children run were the first Len(d.trace) entries of d.list, in order.
RanInListOrder(d) ==
    /\ Len(d.trace) <= Len(d.list)
    /\ \A k \in 1..Len(d.trace) : ChildAt(d, k) = d.list[k]

\* n ran once in this tree run, so the run() counts of its children are
\* those of that one run: a child was run once if it is in the trace, and
\* returned what the trace says, and was not run otherwise.
CountsMatch(n, children) ==
    calls[n] = 1 =>
        \A c \in children :
            LET ks == {k \in 1..Len(done[n].trace) : ChildAt(done[n], k) = c} IN
            /\ calls[c] = Cardinality(ks)
            /\ done[c].ran = (ks # {})
            /\ \A k \in ks : done[c].result = ResultAt(done[n], k)

Range(s) == {s[k] : k \in 1..Len(s)}

\* C1: a Selector that returned ran its children first-to-last in list
\* order, each at most once, none after the first that returned true, and
\* returned true iff some child returned true (false, nothing run, with no
\* children).
C1_Selector ==
    \A n \in Returned("Selector") :
        LET d == done[n] IN
        /\ d.list = nodes[n].children
        /\ RanInListOrder(d)
        /\ \A k \in 1..Len(d.trace) : ResultAt(d, k) => k = Len(d.trace)
        /\ d.result = (\E k \in 1..Len(d.trace) : ResultAt(d, k))
        /\ ~d.result => Len(d.trace) = Len(d.list)
        /\ CountsMatch(n, Range(nodes[n].children))

\* A Selector of three children returned true at the second; the third was not run.
C1_Witness ==
    \E n \in Returned("Selector") :
        /\ Len(nodes[n].children) = 3
        /\ done[n].result
        /\ Len(done[n].trace) = 2
        /\ calls[nodes[n].children[3]] = 0

\* C2: a Sequence that returned ran its children first-to-last in list
\* order, each at most once, none after the first that returned false, and
\* returned true iff every child returned true (true, nothing run, with no
\* children).
C2_Sequence ==
    \A n \in Returned("Sequence") :
        LET d == done[n] IN
        /\ d.list = nodes[n].children
        /\ RanInListOrder(d)
        /\ \A k \in 1..Len(d.trace) : ~ResultAt(d, k) => k = Len(d.trace)
        /\ d.result = (Len(d.trace) = Len(d.list) /\ \A k \in 1..Len(d.trace) : ResultAt(d, k))
        /\ CountsMatch(n, Range(nodes[n].children))

\* A Sequence of three DoorActions returned false at the second; the third was not run.
C2_Witness ==
    \E n \in Returned("Sequence") :
        /\ Len(nodes[n].children) = 3
        /\ \A c \in Range(nodes[n].children) : nodes[c].kind = "DoorAction"
        /\ ~done[n].result
        /\ Len(done[n].trace) = 2
        /\ calls[nodes[n].children[3]] = 0

\* The verdict of a child that cannot vary: a DoorAction of probability 0 or 100.
FixedVerdict(c) ==
    nodes[c].kind = "DoorAction" /\ nodes[c].probabilityOfSuccess \in {0, 100}
Verdict(c) == nodes[c].probabilityOfSuccess = 100

\* C3: a RandomSelector that returned ran each child at most once, in the
\* order of the shuffled list, none after the first that returned true; and
\* when its children have fixed verdicts it returned true iff some child's
\* verdict is true, whatever the shuffle chose.
C3_RandomSelector ==
    \A n \in Returned("RandomSelector") :
        LET d == done[n]
            children == Range(nodes[n].children) IN
        /\ RanInListOrder(d)
        /\ \A j, k \in 1..Len(d.trace) : ChildAt(d, j) = ChildAt(d, k) => j = k
        /\ \A k \in 1..Len(d.trace) : ChildAt(d, k) \in children
        /\ \A k \in 1..Len(d.trace) : ResultAt(d, k) => k = Len(d.trace)
        /\ CountsMatch(n, children)
        /\ (\A c \in children : FixedVerdict(c)) =>
                d.result = (\E c \in children : Verdict(c))

\* Three children of fixed verdicts, only the first succeeds; the shuffle
\* put it second, and the RandomSelector returned true after two runs.
C3_Witness ==
    \E n \in Returned("RandomSelector") :
        /\ Len(nodes[n].children) = 3
        /\ \A c \in Range(nodes[n].children) : FixedVerdict(c)
        /\ {c \in Range(nodes[n].children) : Verdict(c)} = {nodes[n].children[1]}
        /\ done[n].list[2] = nodes[n].children[1]
        /\ done[n].result
        /\ Len(done[n].trace) = 2

\* C4: an Inverter that returned ran its child exactly once and returned
\* the negation of the child's result.
C4_Inverter ==
    \A n \in Returned("Inverter") :
        LET d == done[n] IN
        /\ Len(d.trace) = 1
        /\ ChildAt(d, 1) = nodes[n].child
        /\ d.result = ~ResultAt(d, 1)
        /\ CountsMatch(n, {nodes[n].child})

\* An Inverter returned false: its child, run once, returned true.
C4_Witness ==
    \E n \in Returned("Inverter") :
        /\ ~done[n].result
        /\ calls[n] = 1
        /\ calls[nodes[n].child] = 1
        /\ done[nodes[n].child].result

\* C5: a Succeeder or a Failer that returned ran its child exactly once;
\* the Succeeder returned true and the Failer false, whatever the child
\* returned.
C5_SucceederFailer ==
    \A n \in Returned("Succeeder") \cup Returned("Failer") :
        LET d == done[n] IN
        /\ Len(d.trace) = 1
        /\ ChildAt(d, 1) = nodes[n].child
        /\ d.result = (nodes[n].kind = "Succeeder")
        /\ CountsMatch(n, {nodes[n].child})

\* A Succeeder returned (true) although its child, run once, returned false.
C5_Witness ==
    \E n \in Returned("Succeeder") :
        /\ calls[nodes[n].child] = 1
        /\ done[nodes[n].child].ran
        /\ ~done[nodes[n].child].result

\* C6: a Repeater of positive count numRepeats that returned ran its child
\* exactly numRepeats times and returned the result of the last of them.
C6_Repeater ==
    \A n \in Returned("Repeater") :
        LET d == done[n] IN
        nodes[n].numRepeats > 0 =>
            /\ Len(d.trace) = nodes[n].numRepeats
            /\ \A k \in 1..Len(d.trace) : ChildAt(d, k) = nodes[n].child
            /\ d.result = ResultAt(d, nodes[n].numRepeats)
            /\ calls[n] = 1 => calls[nodes[n].child] = nodes[n].numRepeats

\* Repeater(3) returned false: its child returned true, true, false.
C6_Witness ==
    \E n \in Returned("Repeater") :
        /\ nodes[n].numRepeats = 3
        /\ calls[nodes[n].child] = 3
        /\ ResultAt(done[n], 1) /\ ResultAt(done[n], 2) /\ ~ResultAt(done[n], 3)
        /\ ~done[n].result

\* C7: a RepeatUntilFail that returned returned true, after its child
\* returned true k times and then false: the child was run k+1 times, the
\* last of them the only one that returned false, and is not run again.
C7_RepeatUntilFail ==
    \A n \in Returned("RepeatUntilFail") :
        LET d == done[n] IN
        /\ d.result
        /\ Len(d.trace) >= 1
        /\ \A k \in 1..Len(d.trace) : ChildAt(d, k) = nodes[n].child
        /\ \A k \in 1..Len(d.trace) : ResultAt(d, k) = (k < Len(d.trace))
        /\ calls[n] = 1 => calls[nodes[n].child] = Len(d.trace)

\* A RepeatUntilFail returned after its child returned true, true, false.
C7_Witness ==
    \E n \in Returned("RepeatUntilFail") :
        /\ Len(done[n].trace) = 3
        /\ calls[nodes[n].child] = 3
        /\ nodes[nodes[n].child].kind = "DoorAction"

\* The run() on top of the call stack returns v in this step.
ReturnsNow(v) ==
    /\ phase' = "running"
    /\ Len(stack') = Len(stack) - 1
    /\ ret' = v

\* C8: a step of PopFromStack::run on an empty stack returns false and
\* leaves the stacks and the slots as they are; on a non-empty stack it
\* returns true, leaves the former top element in the item slot and removes
\* that one element from the bound stack, the rest of it and everything
\* else unchanged.
C8_PopFromStack ==
    [][Running("PopFromStack") =>
        LET s == stacks[this.stk] IN
        IF Len(s) = 0
        THEN ReturnsNow(FALSE) /\ stacks' = stacks /\ slots' = slots
        ELSE /\ ReturnsNow(TRUE)
             /\ slots' = [slots EXCEPT ![this.item] = s[Len(s)]]
             /\ stacks' = [stacks EXCEPT ![this.stk] = [k \in 1..(Len(s) - 1) |-> s[k]]]
      ]_vars

\* A PopFromStack returned true: it took door 1 off the top of a stack
\* whose next element, door 2, is now the top.
C8_Witness ==
    \E n \in Returned("PopFromStack") :
        /\ done[n].result
        /\ slots[nodes[n].item] = 1
        /\ stacks[nodes[n].stk] # <<>>
        /\ stacks[nodes[n].stk][Len(stacks[nodes[n].stk])] = 2

\* C9: a step of GetStack::run returns true and leaves in the destination
\* stack the contents of the source stack, with the extra object on top when
\* one was bound, the source stack and the slots unchanged; a later step of
\* PushToStack::run or PopFromStack::run changes no stack but its own.
C9_GetStack ==
    [][/\ Running("GetStack") =>
            LET src == stacks[this.obtainedStack] IN
            /\ ReturnsNow(TRUE)
            /\ stacks'[this.obtainedStack] = src
            /\ stacks'[this.stk] =
                    [k \in 1..(Len(src) + (IF this.object = NULL THEN 0 ELSE 1)) |->
                        IF k <= Len(src) THEN src[k] ELSE this.object]
            /\ slots' = slots
       /\ (Running("PushToStack") \/ Running("PopFromStack")) =>
            \A s \in StackNames \ {this.stk} : stacks'[s] = stacks[s]
      ]_vars

\* GetStack copied a building of two doors and put door 3 on top; then a
\* PushToStack changed the building: the copy still is the snapshot.
C9_Witness ==
    \E g \in Returned("GetStack"), n \in Returned("PushToStack") :
        /\ nodes[g].object = 3
        /\ nodes[n].stk = nodes[g].obtainedStack
        /\ stacks[nodes[g].stk] = <<2, 1, 3>>
        /\ Len(stacks[nodes[g].obtainedStack]) = 3
        /\ stacks[nodes[g].obtainedStack] # stacks[nodes[g].stk]

(***************************************************************************)
(* The door scenario.                                                      *)
(***************************************************************************)
PopLine(l) == l.text = "Trying to get through door"
SetLine(l) == l.text = "The door that was used to get in is door"
ActionLine(l) == ~PopLine(l) /\ ~SetLine(l)

\* The door being tried when line k was written: that of the last
\* "Trying to get through door" line before it (0: none yet).
DoorAt(k) ==
    LET ks == {j \in 1..(k - 1) : PopLine(log[j])} IN
    IF ks = {} THEN 0 ELSE log[CHOOSE j \in ks : \A i \in ks : i <= j].door

\* The fixed outcomes of the scenario: what the action named text may
\* return at door d (both values where the scenario does not say).
Scripted(d, text) ==
    CASE text = "Walk to door" -> {TRUE}
      [] text = "Open door" -> IF d = 2 THEN {TRUE} ELSE {FALSE}
      [] text = "Unlock door" -> IF d = 2 THEN BOOLEAN ELSE {FALSE}
      [] text = "Smash door" -> IF d = 2 THEN BOOLEAN ELSE {TRUE}
      [] text = "Walk through door" -> IF d = 3 THEN {TRUE} ELSE {FALSE}
      [] text = "Close door" -> IF d = 3 THEN {TRUE} ELSE BOOLEAN
      [] OTHER -> BOOLEAN

FollowsScript ==
    \A k \in 1..Len(log) :
        ActionLine(log[k]) => log[k].ok \in Scripted(DoorAt(k), log[k].text)

TimesPopped(d) == Cardinality({k \in 1..Len(log) : PopLine(log[k]) /\ log[k].door = d})

\* The "Possible outcome" at the end of behaviour_tree_test.cpp, up to the
\* verdict line.
PossibleOutcome ==
    <<Line("Trying to get through door", 1, TRUE),
      Line("Walk to door", 0, TRUE),
      Line("Open door", 0, FALSE),
      Line("Unlock door", 0, FALSE),
      Line("Smash door", 0, TRUE),
      Line("Walk through door", 0, FALSE),
      Line("Trying to get through door", 2, TRUE),
      Line("Walk to door", 0, TRUE),
      Line("Open door", 0, TRUE),
      Line("Walk through door", 0, FALSE),
      Line("Trying to get through door", 3, TRUE),
      Line("Walk to door", 0, TRUE),
      Line("Open door", 0, FALSE),
      Line("Unlock door", 0, FALSE),
      Line("Smash door", 0, TRUE),
      Line("Walk through door", 0, TRUE),
      Line("Close door", 0, TRUE),
      Line("The door that was used to get in is door", 3, TRUE)>>

\* main()'s tree and data with Building(3), its one tree run over, every
\* DoorAction having returned what the scenario fixes.
ScenarioRan ==
    /\ nodes = DoorTree
    /\ stacks.building = initializeBuilding(ScenarioDoors)
    /\ runs = 1
    /\ phase = "idle"
    /\ FollowsScript

\* C10: in the door scenario the tree run returns true, the used-door slot
\* holds door 3, doors 1 and 2 were each popped exactly once (and door 3
\* once), and the output is the one the test file gives.
C10_DoorScenario ==
    ScenarioRan =>
        /\ verdict = TRUE
        /\ slots.usedDoor = 3
        /\ TimesPopped(1) = 1 /\ TimesPopped(2) = 1 /\ TimesPopped(3) = 1
        /\ stacks.doors = <<>>
        /\ log = PossibleOutcome

\* The scenario ran to its end.
C10_Witness == ScenarioRan /\ verdict = TRUE /\ calls[popFromStack] = 3

(***************************************************************************)
(* Contract violations.                                                    *)
(***************************************************************************)
\* C11: run() on a decorator whose child was never set runs no node, leaves
\* the blackboard as it was and delivers no true/false verdict.
C11_UnsetChildFailsFast ==
    unset # {} =>
        /\ \A k \in 2..Len(stack) : stack[k - 1].node \notin unset
        /\ \A n \in unset : ~done[n].ran
        /\ stacks.doors = <<1>> /\ slots.currentDoor = NULL
        /\ verdict = "none"

\* C12: a step of SetVariable::run whose source slot holds a Door or is
\* unset (null) copies the source slot into the destination slot and
\* returns true: it never faults.
C12_SetVariableNeverFaults ==
    [][Running("SetVariable") /\ slots[this.objectSlot] \in {NULL} \cup Doors =>
        /\ ReturnsNow(TRUE)
        /\ slots' = [slots EXCEPT ![this.variable] = slots[this.objectSlot]]
        /\ stacks' = stacks
      ]_vars

\* The door programs alone, every step of a run() in progress taken in the end.
DoorInit == InitOf(DoorPrograms)
DoorNext ==
    \/ BehaviourTreeRun
    \/ BehaviourTreeReturn
    \/ RootRun
    \/ SelectorRun
    \/ SequenceRun
    \/ InverterRun
    \/ SucceederRun
    \/ RepeatUntilFailRun
    \/ DoorActionRun
    \/ GetStackRun
    \/ PopFromStackRun
    \/ SetVariableRun
    \/ IsNullRun
DoorSpec == DoorInit /\ [][DoorNext]_vars /\ WF_vars(DoorNext)

\* In the Repeater programs node 2 is the Repeater and node 3 its child.
UnboundedRepeaterRuns ==
    /\ nodes[2].kind = "Repeater"
    /\ nodes[2].numRepeats = NOT_FOUND
    /\ calls[2] > 0
ChildReturnedToRepeater(r) ==
    UnboundedRepeaterRuns /\ Len(stack) = 2 /\ top.pc = "forever" /\ ret = r
RepeaterChildRuns == Len(stack) = 3 /\ top.node = nodes[2].child

\* C13: a Repeater with the sentinel count never returns from run(): no
\* verdict reaches its parent or the caller of the tree, after every result
\* of its child, true or false, the child is run again, and the child is
\* eventually run more than MaxCalls times.
C13_RepeaterNeverReturns ==
    /\ [](UnboundedRepeaterRuns =>
            ~done[2].ran /\ ~done[root].ran /\ phase = "running" /\ verdict = "none")
    /\ \A r \in BOOLEAN : ChildReturnedToRepeater(r) ~> RepeaterChildRuns
    /\ UnboundedRepeaterRuns ~> (calls[nodes[2].child] > MaxCalls)

\* The child of an unbounded Repeater has returned false after more than
\* MaxCalls runs, and the Repeater is still inside run().
C13_Witness ==
    /\ ChildReturnedToRepeater(FALSE)
    /\ calls[nodes[2].child] > MaxCalls
    /\ nodes[nodes[2].child].probabilityOfSuccess = 60

\* What one step of a leaf does with the slots and stacks bound by reference:
\* it works on the values they hold when the step is taken.
LeavesUseCurrentValues ==
    /\ Running("PushToStack") =>
            stacks' = [stacks EXCEPT ![this.stk] = Append(@, slots[this.item])]
    /\ Running("PopFromStack") /\ stacks[this.stk] # <<>> /\ phase' = "running" =>
            /\ slots' = [slots EXCEPT ![this.item] = stacks[this.stk][Len(stacks[this.stk])]]
            /\ stacks' = [stacks EXCEPT ![this.stk] = SubSeq(@, 1, Len(@) - 1)]
    /\ Running("PopFromStack") /\ stacks[this.stk] = <<>> => ReturnsNow(FALSE)
    /\ Running("StackIsEmpty") => ReturnsNow(stacks[this.stk] = <<>>)
    /\ Running("SetVariable") =>
            slots' = [slots EXCEPT ![this.variable] = slots[this.objectSlot]]
    /\ Running("IsNull") => ReturnsNow(slots[this.objectSlot] = NULL)
\* GetStack copies the source stack as it is now and pushes extra, if not null.
GetStackPushes(extra) ==
    Running("GetStack") =>
        stacks' = [stacks EXCEPT ![this.stk] =
                      IF extra = NULL THEN stacks[this.obtainedStack]
                      ELSE Append(stacks[this.obtainedStack], extra)]

\* C14 as stated: every leaf, GetStack included, uses the value each bound
\* slot holds when run() is called; the extra item of a GetStack constructed
\* from a slot is the value that slot holds when the GetStack runs.
C14_EveryLeafReadsByReference ==
    [][/\ LeavesUseCurrentValues
       /\ Running("GetStack") /\ this.objectFrom # "" => GetStackPushes(slots[this.objectFrom])
      ]_vars

\* C14, amended: PushToStack, PopFromStack, StackIsEmpty, SetVariable and
\* IsNull use the value each bound slot and stack holds when run() is called,
\* and GetStack copies its source stack as it is when run() is called; the
\* extra item of a GetStack is the pointer its constructor was given, whatever
\* the slot it was taken from holds by then.
C14_LeavesReadByReferenceExceptObject ==
    [][/\ LeavesUseCurrentValues
       /\ GetStackPushes(this.object)
       /\ Running("GetStack") /\ this.objectFrom # "" =>
                this.object = constructed[this.objectFrom]
      ]_vars

\* PopFromStack has set currentDoor to door 1, the GetStack constructed with
\* the earlier currentDoor (door 2) has pushed door 2, and PushToStack has
\* pushed door 1 on top of it.
C14_Witness ==
    /\ Len(nodes) >= 5
    /\ nodes[4].kind = "GetStack" /\ nodes[4].objectFrom = "currentDoor"
    /\ done[4].ran /\ done[5].ran
    /\ constructed.currentDoor = 2 /\ slots.currentDoor = 1
    /\ Len(stacks.doors) >= 2
    /\ Top(stacks.doors) = 1 /\ Top(Pop(stacks.doors)) = 2

LeafKinds ==
    {"DoorAction", "PushToStack", "GetStack", "PopFromStack", "StackIsEmpty",
     "SetVariable", "IsNull"}

\* C15: a step of a composite or decorator, whether it calls a child, takes
\* a child's result, skips its remaining children or returns, leaves the
\* stacks and slots as they are; they change only in a step of a leaf whose
\* run() has been called, so a child that was never run changes nothing.
C15_OnlyLeavesChangeBlackboard ==
    [][/\ stack # <<>> /\ this.kind \in CompositeKinds \cup DecoratorKinds =>
                stacks' = stacks /\ slots' = slots
       /\ (stacks' # stacks \/ slots' # slots) =>
                /\ stack # <<>>
                /\ this.kind \in LeafKinds \ {"DoorAction"}
                /\ calls[top.node] > 0
       /\ \A n \in NodeIds : calls[n] = 0 /\ calls'[n] = 0 /\ runs' = runs =>
                ~(stack # <<>> /\ top.node = n)
      ]_vars

\* The Sequence over the six leaves has returned true to the root: the
\* stacks and slots hold what PopFromStack, GetStack, PushToStack and
\* SetVariable made of them, with the Sequence, Inverter and Root steps
\* in between.
C15_Witness ==
    /\ Len(nodes) = 9 /\ nodes[2].kind = "Sequence" /\ nodes[7].kind = "Inverter"
    /\ done[2].ran /\ done[2].result /\ done[7].ran
    /\ slots.usedDoor = 1 /\ slots.currentDoor = 1
    /\ stacks.building = <<>> /\ Top(stacks.doors) = 1

\* C16: no step of the tree, a RandomSelector's run() included, changes the
\* child list a RandomSelector stores, so getChildren() gives the same list
\* before and after any number of run() calls; the order a run() iterated is
\* a permutation of that stored list.
C16_RandomSelectorKeepsChildren ==
    [][\A n \in NodeIds : nodes[n].kind = "RandomSelector" =>
            /\ DOMAIN nodes' = DOMAIN nodes
            /\ getChildren(nodes'[n]) = getChildren(nodes[n])
            /\ done[n].ran => done[n].list \in Shuffles(getChildren(nodes[n]))
      ]_vars

\* In the second run of the tree a RandomSelector with three children has
\* returned after iterating them in an order other than the stored one, and
\* the stored list is still the constructed <<3, 4, 5>>.
C16_Witness ==
    \E n \in Returned("RandomSelector") :
        /\ runs = 2
        /\ getChildren(nodes[n]) = <<3, 4, 5>>
        /\ done[n].list = <<5, 3, 4>>

(***************************************************************************)
(* The door tree.                                                          *)
(***************************************************************************)
\* N: the doors of the building (the building is never changed).
NumDoors == Len(stacks.building)
Pops == Cardinality({k \in 1..Len(log) : PopLine(log[k])})

\* C17: a run of the door tree on a building of N doors ends with a verdict,
\* whatever the actions return; during it RepeatUntilFail runs its child at
\* most N + 1 times, PopFromStack succeeds at most N times and no door is
\* popped twice.
C17_DoorTreeTerminates ==
    /\ [](/\ phase # "crashed"
          /\ calls[untilFail] <= 1
          /\ calls[sequence1] <= NumDoors + 1
          /\ Pops <= NumDoors
          /\ \A d \in Doors : TimesPopped(d) <= 1)
    /\ (phase = "running") ~> (phase = "idle" /\ runs > 0 /\ verdict \in BOOLEAN)

\* Every attempt failed at all three doors of the scenario's building: the
\* child of RepeatUntilFail ran four times, the last time for the failing
\* pop, and the run ended with the verdict false.
C17_Witness ==
    /\ NumDoors = ScenarioDoors
    /\ phase = "idle" /\ runs > 0 /\ ~verdict
    /\ calls[sequence1] = NumDoors + 1
    /\ Pops = NumDoors
    /\ \A d \in 1..NumDoors : TimesPopped(d) = 1

\* The action named text ran at door d and returned true.
Ok(d, text) ==
    \E k \in 1..Len(log) :
        ActionLine(log[k]) /\ DoorAt(k) = d /\ log[k].text = text /\ log[k].ok
Failed(d, text) ==
    \E k \in 1..Len(log) :
        ActionLine(log[k]) /\ DoorAt(k) = d /\ log[k].text = text /\ ~log[k].ok
\* The attempt at door d: walk to it, open or unlock or smash it, walk through.
AttemptSucceeded(d) ==
    /\ Ok(d, "Walk to door")
    /\ Ok(d, "Open door") \/ Ok(d, "Unlock door") \/ Ok(d, "Smash door")
    /\ Ok(d, "Walk through door")
Won == {d \in 1..NumDoors : AttemptSucceeded(d)}
Popped == {d \in 1..NumDoors : TimesPopped(d) > 0}
\* The first run of a door tree, with usedDoor null at its start, is over.
FirstRunOver == nodes \in DoorTrees /\ runs = 1 /\ phase = "idle"

\* C18: after the first run of the door tree the verdict is true iff the
\* attempt at some door succeeded; the doors were popped in the order 1, 2,
\* ...; if an attempt succeeded, usedDoor is the first door whose attempt
\* did and no later door was popped; if none did, the verdict is false, every
\* door was popped, the working stack is empty and usedDoor is null.  What
\* "Close door" returned is no part of the condition.
C18_DoorTreeVerdict ==
    FirstRunOver =>
        /\ verdict = (Won # {})
        /\ \A k \in 1..Len(log) : PopLine(log[k]) => log[k].door = DoorAt(k) + 1
        /\ \A w \in Won :
                /\ Won = {w}
                /\ slots.usedDoor = w
                /\ Popped = 1..w
        /\ Won = {} =>
                /\ ~verdict
                /\ Popped = 1..NumDoors
                /\ stacks.doors = <<>>
                /\ slots.usedDoor = NULL

\* The attempts at doors 1 and 2 failed, the one at door 3 succeeded although
\* "Close door" failed there: the verdict is true and usedDoor is door 3.
C18_Witness ==
    /\ FirstRunOver
    /\ NumDoors = 3
    /\ Won = {3}
    /\ Failed(3, "Close door")
    /\ verdict
    /\ slots.usedDoor = 3

\* C19: in the door tree a run that returns true leaves usedDoor set, no
\* step of any node sets a non-null usedDoor back to null, GetStack copies
\* the building anew in every run, and a run that ends with usedDoor set
\* returns true: once a run has returned true every later run does, also
\* when every attempt of that later run failed.
C19_SuccessPersists ==
    [][(nodes \in DoorTrees) =>
            /\ phase = "idle" /\ runs > 0 /\ verdict => slots.usedDoor # NULL
            /\ slots.usedDoor # NULL => slots'.usedDoor # NULL
            /\ stack # <<>> /\ this.kind = "GetStack" => stacks'.doors = stacks.building
            /\ stacks'.building = stacks.building
            /\ phase' = "idle" /\ slots.usedDoor # NULL => verdict' = TRUE
      ]_vars

\* The second run is over: every door was popped again, every attempt
\* failed, usedDoor is still door 2 of the first run and the verdict is true.
C19_Witness ==
    /\ nodes \in DoorTrees
    /\ runs = 2 /\ phase = "idle"
    /\ NumDoors = 3 /\ Popped = 1..3 /\ Won = {}
    /\ slots.usedDoor = 2
    /\ verdict

(***************************************************************************)
(* Repeater counts below one.                                              *)
(***************************************************************************)
TimesToRun(numRepeats) == IF numRepeats > 1 THEN numRepeats ELSE 1

====
